---------------------------- MODULE Spec2Model ----------------------------
(***************************************************************************)
(* Model of the conversational weather assistant (src/main.py,             *)
(* src/backend/api.py, src/utils/parser.py).                               *)
(*                                                                         *)
(* Text is modelled as a sequence of one-character strings, so that the    *)
(* Python string operations the code relies on (str.split, str.strip,      *)
(* str.replace, str.startswith, re.split) are computed character by        *)
(* character.                                                              *)
(***************************************************************************)
EXTENDS Integers, Sequences, FiniteSets, TLC

(***************************************************************************)
(* Bounds of the model.                                                    *)
(***************************************************************************)
\* number of pieces a generated insight text is assembled from
MaxPieces == 5

\* number of words of an utterance
MaxTokens == 4

\* number of pieces an answer of the classification call is assembled from
MaxClsPieces == 3

\* number of places in which a payload differs from the full payload
MaxDefects == 2

(***************************************************************************)
(* Python string primitives.                                               *)
(***************************************************************************)
\* characters for which str.isspace() holds (the ones the model generates)
Whitespace == {" ", "\n"}

\* the sentence-terminal characters of the split pattern [.!?]
Terminals == {".", "!", "?"}

IsSpace(c) == c \in Whitespace

\* s[i..] without its leading whitespace: index of the first non-space at or after i
RECURSIVE SkipSpaces(_, _)
SkipSpaces(s, i) ==
    IF i <= Len(s) /\ IsSpace(s[i]) THEN SkipSpaces(s, i + 1) ELSE i

\* index of the last non-space at or before i (0 when there is none)
RECURSIVE SkipSpacesBack(_, _)
SkipSpacesBack(s, i) ==
    IF i >= 1 /\ IsSpace(s[i]) THEN SkipSpacesBack(s, i - 1) ELSE i

\* str.strip()
Strip(s) ==
    LET a == SkipSpaces(s, 1)
        b == SkipSpacesBack(s, Len(s))
    IN  IF a > b THEN <<>> ELSE SubSeq(s, a, b)

\* str.startswith(p)
StartsWith(s, p) ==
    /\ Len(p) <= Len(s)
    /\ SubSeq(s, 1, Len(p)) = p

\* whether p occurs in s at index i
OccursAt(s, p, i) ==
    /\ i + Len(p) - 1 <= Len(s)
    /\ SubSeq(s, i, i + Len(p) - 1) = p

\* the Python expression  p in s
Contains(s, p) == \E i \in 1..(Len(s) + 1) : OccursAt(s, p, i)

\* str.replace(p, ""): every non-overlapping occurrence of p, scanning left to
\* right, is removed; the result is not scanned again
RECURSIVE RemoveFrom(_, _, _)
RemoveFrom(s, p, i) ==
    IF i > Len(s) THEN <<>>
    ELSE IF OccursAt(s, p, i) THEN RemoveFrom(s, p, i + Len(p))
    ELSE <<s[i]>> \o RemoveFrom(s, p, i + 1)

Remove(s, p) == RemoveFrom(s, p, 1)

\* str.split(): the maximal runs of non-whitespace characters
RECURSIVE WordsFrom(_, _, _)
WordsFrom(s, i, cur) ==
    IF i > Len(s) THEN (IF cur = <<>> THEN <<>> ELSE <<cur>>)
    ELSE IF IsSpace(s[i])
         THEN (IF cur = <<>> THEN <<>> ELSE <<cur>>) \o WordsFrom(s, i + 1, <<>>)
         ELSE WordsFrom(s, i + 1, Append(cur, s[i]))

Words(s) == WordsFrom(s, 1, <<>>)

\* sep.join(parts)
RECURSIVE Join(_, _)
Join(parts, sep) ==
    IF parts = <<>> THEN <<>>
    ELSE IF Len(parts) = 1 THEN parts[1]
    ELSE parts[1] \o sep \o Join(Tail(parts), sep)

\* re.split(r'(?<=[.!?])\s+', s): s is cut at every maximal whitespace run
\* that directly follows a terminal character; the pieces may be empty
RECURSIVE ReSplitFrom(_, _, _)
ReSplitFrom(s, i, cur) ==
    IF i > Len(s) THEN <<cur>>
    ELSE IF IsSpace(s[i]) /\ i > 1 /\ s[i - 1] \in Terminals
         THEN <<cur>> \o ReSplitFrom(s, SkipSpaces(s, i), <<>>)
         ELSE ReSplitFrom(s, i + 1, Append(cur, s[i]))

ReSplit(s) == ReSplitFrom(s, 1, <<>>)

\* [x.strip() for x in parts if x.strip()]
RECURSIVE StripNonEmpty(_)
StripNonEmpty(parts) ==
    IF parts = <<>> THEN <<>>
    ELSE (IF Strip(parts[1]) = <<>> THEN <<>> ELSE <<Strip(parts[1])>>)
         \o StripNonEmpty(Tail(parts))

(***************************************************************************)
(* Literals of the program.                                                *)
(***************************************************************************)
RecommendationLabel ==
    <<"R", "e", "c", "o", "m", "m", "e", "n", "d", "a", "t", "i", "o", "n", ":">>

InsightsLabel == <<"I", "n", "s", "i", "g", "h", "t", "s", ":">>

\* "Insights unavailable at this time."
Placeholder ==
    <<"I", "n", "s", "i", "g", "h", "t", "s", " ", "u", "n", "a", "v", "a", "i",
      "l", "a", "b", "l", "e", " ", "a", "t", " ", "t", "h", "i", "s", " ", "t",
      "i", "m", "e", ".">>

(***************************************************************************)
(* The sentence split of get_weather_insights (STEP 4).                    *)
(***************************************************************************)
\* " ".join(insights_text.split())
CollapseWhitespace(s) == Join(Words(s), <<" ">>)

\* full_text: whitespace collapsed, then the two labels removed, then stripped
CleanText(s) ==
    Strip(Remove(Remove(CollapseWhitespace(s), RecommendationLabel), InsightsLabel))

\* sentences: the non-empty stripped pieces of the regular-expression split
Sentences(full) == StripNonEmpty(ReSplit(full))

\* A plausible slip: two sentences are kept together as the recommendation.
SplitInsightsTwoAsOne(insights_text) ==
    LET full == CleanText(insights_text)
        sentences == Sentences(full)
    IN  IF Len(sentences) >= 3
        THEN [recommendation |-> sentences[1],
              insights |-> Join(Tail(sentences), <<" ">>)]
        ELSE [recommendation |-> full, insights |-> <<>>]

SplitInsights(insights_text) ==
    LET full == CleanText(insights_text)
        sentences == Sentences(full)
    IN  IF Len(sentences) >= 3
        THEN [recommendation |-> sentences[1],
              insights |-> Join(Tail(sentences), <<" ">>)]
        ELSE IF Len(sentences) = 2
        THEN [recommendation |-> sentences[1], insights |-> sentences[2]]
        ELSE [recommendation |-> full, insights |-> <<>>]

(***************************************************************************)
(* JSON values of a provider payload.  A scalar is a tagged record, so     *)
(* that null, a missing key, 0 and the empty string stay distinct:         *)
(* [t |-> "num", v |-> 0] is the number 0, [t |-> "str", v |-> 0] the      *)
(* empty string and [t |-> "str", v |-> 1] a non-empty string.  Scalars    *)
(* are generated with the JSON type the provider documents for the key.    *)
(***************************************************************************)
Absent == [t |-> "absent", v |-> 0]    \* the key is not in the object
Null == [t |-> "null", v |-> 0]        \* JSON null, Python None
Num(n) == [t |-> "num", v |-> n]
Str(n) == [t |-> "str", v |-> n]

SysKeys == {"country"}
MainKeys == {"temp", "feels_like", "humidity", "temp_min", "temp_max", "pressure"}
WeatherKeys == {"description", "main"}
WindKeys == {"speed", "deg"}

\* a value stored under "sys", "main" or "wind", or an element of "weather":
\* t is "absent", "null", "object" or "string"; f holds the keys of an object
SubValue(t, f) == [t |-> t, f |-> f]

NoKeys(keys) == [k \in keys |-> Absent]

\* the value stored under "weather": t is "absent", "null", "array" or
\* "string"; items are the elements of an array; truthy is bool() of a string
ListValue(t, items, truthy) == [t |-> t, items |-> items, truthy |-> truthy]

\* the value response.json() returns, None or a dict: shape is "null" or
\* "object"; extra says that the object holds keys other than the five the
\* parser reads
RawData(shape, extra, name, sys, main, weather, wind) ==
    [shape |-> shape, extra |-> extra, name |-> name,
     sys |-> sys, main |-> main, weather |-> weather, wind |-> wind]

\* bool(raw_data)
Truthy(raw) ==
    /\ raw.shape # "null"
    /\ \/ raw.extra
       \/ raw.name.t # "absent"
       \/ raw.sys.t # "absent"
       \/ raw.main.t # "absent"
       \/ raw.weather.t # "absent"
       \/ raw.wind.t # "absent"

(***************************************************************************)
(* Exceptions and results of a call.                                       *)
(***************************************************************************)
Raised(class, message) == [ok |-> FALSE, exc |-> class, msg |-> message]
Returned(value) == [ok |-> TRUE, val |-> value]

\* "Cannot parse empty or None weather data."
MsgEmptyData ==
    <<"C", "a", "n", "n", "o", "t", " ", "p", "a", "r", "s", "e", " ", "e",
      "m", "p", "t", "y", " ", "o", "r", " ", "N", "o", "n", "e", " ", "w",
      "e", "a", "t", "h", "e", "r", " ", "d", "a", "t", "a", ".">>

\* "'NoneType' object has no attribute 'get'"
MsgNoGet ==
    <<"'", "N", "o", "n", "e", "T", "y", "p", "e", "'", " ", "o", "b", "j",
      "e", "c", "t", " ", "h", "a", "s", " ", "n", "o", " ", "a", "t", "t",
      "r", "i", "b", "u", "t", "e", " ", "'", "g", "e", "t", "'">>

\* "'NoneType' object has no attribute 'strip'"
MsgNoStrip ==
    <<"'", "N", "o", "n", "e", "T", "y", "p", "e", "'", " ", "o", "b", "j",
      "e", "c", "t", " ", "h", "a", "s", " ", "n", "o", " ", "a", "t", "t",
      "r", "i", "b", "u", "t", "e", " ", "'", "s", "t", "r", "i", "p", "'">>

(***************************************************************************)
(* WeatherParser.parse_weather_data.                                       *)
(***************************************************************************)
\* dict.get(key): None when the key is missing
DictGet(leaf) == IF leaf.t = "absent" THEN Null ELSE leaf

\* raw_data.get(key, {}): the stored value, or an empty dict when the key is
\* missing (a stored null is returned as it is)
GetOrEmptyDict(sub, keys) ==
    IF sub.t = "absent" THEN SubValue("object", NoKeys(keys)) ELSE sub

\* whether value.get(...) can be called: only a dict has the method
HasGet(sub) == sub.t = "object"

\* bool(weather_list), with weather_list = raw_data.get("weather", [])
ListTruthy(lst) ==
    CASE lst.t = "array" -> lst.items # <<>>
      [] lst.t = "string" -> lst.truthy
      [] OTHER -> FALSE

\* first_weather = weather_list[0] if weather_list else {}
\* (the first character of a non-empty string is again a string)
FirstWeather(lst) ==
    IF ListTruthy(lst)
    THEN (IF lst.t = "array" THEN lst.items[1]
          ELSE SubValue("string", NoKeys(WeatherKeys)))
    ELSE SubValue("object", NoKeys(WeatherKeys))

ParsedRecord(raw, sys, main, first, wind) ==
    [city |-> DictGet(raw.name),
     country |-> DictGet(sys.f["country"]),
     temperature |-> DictGet(main.f["temp"]),
     feels_like |-> DictGet(main.f["feels_like"]),
     temp_min |-> DictGet(main.f["temp_min"]),
     temp_max |-> DictGet(main.f["temp_max"]),
     pressure |-> DictGet(main.f["pressure"]),
     humidity |-> DictGet(main.f["humidity"]),
     description |-> DictGet(first.f["description"]),
     weather_main |-> DictGet(first.f["main"]),
     wind_speed |-> DictGet(wind.f["speed"]),
     wind_deg |-> DictGet(wind.f["deg"])]

\* The statements run in source order; the first one that fails raises.
\* Every failure after the emptiness test is Python's own (a .get on a value
\* that is not a dict) and is modelled as the AttributeError of None.get.
ParseWeatherData(raw) ==
    IF ~Truthy(raw) THEN Raised("ValueError", MsgEmptyData)
    ELSE LET sys == GetOrEmptyDict(raw.sys, SysKeys)
             main == GetOrEmptyDict(raw.main, MainKeys)
             first == FirstWeather(raw.weather)
             wind == GetOrEmptyDict(raw.wind, WindKeys)
         IN  IF ~HasGet(sys) \/ ~HasGet(main) \/ ~HasGet(first) \/ ~HasGet(wind)
             THEN Raised("AttributeError", MsgNoGet)
             ELSE Returned(ParsedRecord(raw, sys, main, first, wind))

(***************************************************************************)
(* Literals of the provider client, the model client and the surfaces.     *)
(***************************************************************************)
\* "WEATHER:"
WeatherPrefix ==
    <<"W", "E", "A", "T", "H", "E", "R", ":">>

\* "CHAT:"
ChatPrefix ==
    <<"C", "H", "A", "T", ":">>

\* "Invalid Weather API key (401 Unauthorized). Check your WEATHER_API_KEY."
Msg401 ==
    <<"I", "n", "v", "a", "l", "i", "d", " ", "W", "e", "a", "t", "h", "e",
      "r", " ", "A", "P", "I", " ", "k", "e", "y", " ", "(", "4", "0", "1",
      " ", "U", "n", "a", "u", "t", "h", "o", "r", "i", "z", "e", "d", ")",
      ".", " ", "C", "h", "e", "c", "k", " ", "y", "o", "u", "r", " ", "W",
      "E", "A", "T", "H", "E", "R", "_", "A", "P", "I", "_", "K", "E", "Y",
      ".">>

\* "City '"
Msg404Head ==
    <<"C", "i", "t", "y", " ", "'">>

\* "' not found (404). Please check the city name."
Msg404Tail ==
    <<"'", " ", "n", "o", "t", " ", "f", "o", "u", "n", "d", " ", "(", "4",
      "0", "4", ")", ".", " ", "P", "l", "e", "a", "s", "e", " ", "c", "h",
      "e", "c", "k", " ", "t", "h", "e", " ", "c", "i", "t", "y", " ", "n",
      "a", "m", "e", ".">>

\* "Weather API rate limit exceeded (429). Please wait and try again."
Msg429 ==
    <<"W", "e", "a", "t", "h", "e", "r", " ", "A", "P", "I", " ", "r", "a",
      "t", "e", " ", "l", "i", "m", "i", "t", " ", "e", "x", "c", "e", "e",
      "d", "e", "d", " ", "(", "4", "2", "9", ")", ".", " ", "P", "l", "e",
      "a", "s", "e", " ", "w", "a", "i", "t", " ", "a", "n", "d", " ", "t",
      "r", "y", " ", "a", "g", "a", "i", "n", ".">>

\* "Weather API returned unexpected status "
MsgStatusHead ==
    <<"W", "e", "a", "t", "h", "e", "r", " ", "A", "P", "I", " ", "r", "e",
      "t", "u", "r", "n", "e", "d", " ", "u", "n", "e", "x", "p", "e", "c",
      "t", "e", "d", " ", "s", "t", "a", "t", "u", "s", " ">>

\* "Request timed out while fetching weather for '"
MsgTimeoutHead ==
    <<"R", "e", "q", "u", "e", "s", "t", " ", "t", "i", "m", "e", "d", " ",
      "o", "u", "t", " ", "w", "h", "i", "l", "e", " ", "f", "e", "t", "c",
      "h", "i", "n", "g", " ", "w", "e", "a", "t", "h", "e", "r", " ", "f",
      "o", "r", " ", "'">>

\* "'."
MsgTimeoutTail ==
    <<"'", ".">>

\* "Network connection error for '"
MsgConnHead ==
    <<"N", "e", "t", "w", "o", "r", "k", " ", "c", "o", "n", "n", "e", "c",
      "t", "i", "o", "n", " ", "e", "r", "r", "o", "r", " ", "f", "o", "r",
      " ", "'">>

\* "'. Check your internet connection."
MsgConnTail ==
    <<"'", ".", " ", "C", "h", "e", "c", "k", " ", "y", "o", "u", "r", " ",
      "i", "n", "t", "e", "r", "n", "e", "t", " ", "c", "o", "n", "n", "e",
      "c", "t", "i", "o", "n", ".">>

\* "Unexpected network error: "
MsgRequestHead ==
    <<"U", "n", "e", "x", "p", "e", "c", "t", "e", "d", " ", "n", "e", "t",
      "w", "o", "r", "k", " ", "e", "r", "r", "o", "r", ":", " ">>

\* "Invalid JSON received from Weather API."
MsgBadJson ==
    <<"I", "n", "v", "a", "l", "i", "d", " ", "J", "S", "O", "N", " ", "r",
      "e", "c", "e", "i", "v", "e", "d", " ", "f", "r", "o", "m", " ", "W",
      "e", "a", "t", "h", "e", "r", " ", "A", "P", "I", ".">>

\* "Expecting value: line 1 column 1 (char 0)"
MsgDecodeError ==
    <<"E", "x", "p", "e", "c", "t", "i", "n", "g", " ", "v", "a", "l", "u",
      "e", ":", " ", "l", "i", "n", "e", " ", "1", " ", "c", "o", "l", "u",
      "m", "n", " ", "1", " ", "(", "c", "h", "a", "r", " ", "0", ")">>

\* "Failed to parse weather data: "
MsgParseHead ==
    <<"F", "a", "i", "l", "e", "d", " ", "t", "o", " ", "p", "a", "r", "s",
      "e", " ", "w", "e", "a", "t", "h", "e", "r", " ", "d", "a", "t", "a",
      ":", " ">>

\* "Failed to generate insights from Gemini: "
MsgGenerateHead ==
    <<"F", "a", "i", "l", "e", "d", " ", "t", "o", " ", "g", "e", "n", "e",
      "r", "a", "t", "e", " ", "i", "n", "s", "i", "g", "h", "t", "s", " ",
      "f", "r", "o", "m", " ", "G", "e", "m", "i", "n", "i", ":", " ">>

\* "Gemini returned an empty response."
MsgEmptyResponse ==
    <<"G", "e", "m", "i", "n", "i", " ", "r", "e", "t", "u", "r", "n", "e",
      "d", " ", "a", "n", " ", "e", "m", "p", "t", "y", " ", "r", "e", "s",
      "p", "o", "n", "s", "e", ".">>

\* "Weather Assistant service is not available"
MsgNotAvailable ==
    <<"W", "e", "a", "t", "h", "e", "r", " ", "A", "s", "s", "i", "s", "t",
      "a", "n", "t", " ", "s", "e", "r", "v", "i", "c", "e", " ", "i", "s",
      " ", "n", "o", "t", " ", "a", "v", "a", "i", "l", "a", "b", "l", "e">>

\* "Message cannot be empty"
MsgEmptyMessage ==
    <<"M", "e", "s", "s", "a", "g", "e", " ", "c", "a", "n", "n", "o", "t",
      " ", "b", "e", " ", "e", "m", "p", "t", "y">>

\* "Error processing message: "
MsgProcessingHead ==
    <<"E", "r", "r", "o", "r", " ", "p", "r", "o", "c", "e", "s", "s", "i",
      "n", "g", " ", "m", "e", "s", "s", "a", "g", "e", ":", " ">>

\* "not found"
NotFoundWords ==
    <<"n", "o", "t", " ", "f", "o", "u", "n", "d">>

DigitChars == <<"0", "1", "2", "3", "4", "5", "6", "7", "8", "9">>

\* str(n) of a non-negative integer, as an f-string renders a status code
RECURSIVE Digits(_)
Digits(n) ==
    IF n < 10 THEN <<DigitChars[n + 1]>>
    ELSE Digits(n \div 10) \o <<DigitChars[(n % 10) + 1]>>

(***************************************************************************)
(* WeatherAPIClient.get_weather.  net is what the network does with the    *)
(* one GET request:                                                        *)
(*   kind    "timeout" | "connection" | "request" | "response"             *)
(*   status  the status code of a response                                 *)
(*   detail  response.text of an error response, or str(e) of a            *)
(*           RequestException                                              *)
(*   decode  "ok" | "json" | "compat": whether response.json() returns, or *)
(*           raises json.JSONDecodeError, or raises the decoder error of   *)
(*           another JSON package (a ValueError that is no                 *)
(*           json.JSONDecodeError)                                         *)
(*   json    the decoded payload                                           *)
(***************************************************************************)
NetOutcome(kind, status, detail, decode, json) ==
    [kind |-> kind, status |-> status, detail |-> detail, decode |-> decode,
     json |-> json]

GetWeather(city, net) ==
    CASE net.kind = "timeout" ->
            Raised("RuntimeError", MsgTimeoutHead \o city \o MsgTimeoutTail)
      [] net.kind = "connection" ->
            Raised("RuntimeError", MsgConnHead \o city \o MsgConnTail)
      [] net.kind = "request" ->
            Raised("RuntimeError", MsgRequestHead \o net.detail)
      [] OTHER ->
            IF net.status = 401 THEN Raised("ValueError", Msg401)
            ELSE IF net.status = 404
            THEN Raised("ValueError", Msg404Head \o city \o Msg404Tail)
            ELSE IF net.status = 429 THEN Raised("RuntimeError", Msg429)
            ELSE IF net.status # 200
            THEN Raised("RuntimeError",
                        MsgStatusHead \o Digits(net.status) \o <<":", " ">>
                            \o net.detail)
            ELSE IF net.decode = "ok" THEN Returned(net.json)
            ELSE IF net.decode = "json" THEN Raised("RuntimeError", MsgBadJson)
            ELSE Raised("ValueError", MsgDecodeError)

(***************************************************************************)
(* LLMClient.generate_insights.  llm is what the model call does:          *)
(*   kind    "raise" | "none" | "text": generate_content raises, or        *)
(*           response.text is None, or it is a string                      *)
(*   detail  str(e) of the exception raised                                *)
(*   text    response.text                                                 *)
(* Every exception inside the try block, the RuntimeError for an empty     *)
(* text and the AttributeError of None.strip() included, is re-raised as   *)
(* RuntimeError.                                                           *)
(***************************************************************************)
LlmOutcome(kind, detail, txt) == [kind |-> kind, detail |-> detail, text |-> txt]

GenerateInsights(weather_data, llm) ==
    CASE llm.kind = "raise" -> Raised("RuntimeError", MsgGenerateHead \o llm.detail)
      [] llm.kind = "none" -> Raised("RuntimeError", MsgGenerateHead \o MsgNoStrip)
      [] OTHER ->
            IF Strip(llm.text) = <<>>
            THEN Raised("RuntimeError", MsgGenerateHead \o MsgEmptyResponse)
            ELSE Returned(Strip(llm.text))

(***************************************************************************)
(* WeatherParser.validate_weather_data.                                    *)
(***************************************************************************)
RequiredFields == {"city", "temperature", "description", "humidity", "wind_speed"}

\* weather_data.get(field) is None
IsNone(weather_data, field) ==
    field \notin DOMAIN weather_data \/ weather_data[field] = Null

\* a validation that takes every falsy value for a missing one
ValidateWeatherDataTruthy(weather_data) ==
    \A field \in RequiredFields :
        /\ ~IsNone(weather_data, field)
        /\ weather_data[field].v # 0

\* the list  missing  is empty
ValidateWeatherData(weather_data) ==
    { field \in RequiredFields : IsNone(weather_data, field) } = {}

(***************************************************************************)
(* The text of a value inside an f-string, and the two renderings of a     *)
(* record for a prompt.  The degree sign and the en dash are outside the   *)
(* character set of this module and are spelled "deg" and "ndash".         *)
(***************************************************************************)
\* str(None)
NoneText == <<"N", "o", "n", "e">>

\* "N/A"
NotAvailable == <<"N", "/", "A">>

\* "Unknown"
Unknown == <<"U", "n", "k", "n", "o", "w", "n">>

\* "Unknown City"
UnknownCity == Unknown \o <<" ", "C", "i", "t", "y">>

\* "Unknown Country"
UnknownCountry == Unknown \o <<" ", "C", "o", "u", "n", "t", "r", "y">>

\* the text of a non-empty string of a payload
SomeText == <<"X">>

\* str(value), as an f-string renders a value of a record
PyStr(leaf) ==
    CASE leaf.t = "null" -> NoneText
      [] leaf.t = "num" -> Digits(leaf.v)
      [] OTHER -> IF leaf.v = 0 THEN <<>> ELSE SomeText

\* str(weather_data.get(key, default)): the default stands in for a missing
\* key only
GetShown(weather_data, key, default) ==
    IF key \in DOMAIN weather_data THEN PyStr(weather_data[key]) ELSE default

\* "Current Weather Report\n======================\nLocation    : "
FmtHead ==
    <<"C", "u", "r", "r", "e", "n", "t", " ", "W", "e", "a", "t", "h", "e",
      "r", " ", "R", "e", "p", "o", "r", "t", "\n", "=", "=", "=", "=", "=",
      "=", "=", "=", "=", "=", "=", "=", "=", "=", "=", "=", "=", "=", "=",
      "=", "=", "=", "\n", "L", "o", "c", "a", "t", "i", "o", "n", " ", " ",
      " ", " ", ":", " ">>

\* "\nCondition   : "
FmtCondition ==
    <<"\n", "C", "o", "n", "d", "i", "t", "i", "o", "n", " ", " ", " ", ":",
      " ">>

\* "\nTemperature : "
FmtTemperature ==
    <<"\n", "T", "e", "m", "p", "e", "r", "a", "t", "u", "r", "e", " ", ":",
      " ">>

\* "°C (feels like "
FmtFeels ==
    <<"deg", "C", " ", "(", "f", "e", "e", "l", "s", " ", "l", "i", "k", "e",
      " ">>

\* "°C)\nRange       : "
FmtRange ==
    <<"deg", "C", ")", "\n", "R", "a", "n", "g", "e", " ", " ", " ", " ", " ",
      " ", " ", ":", " ">>

\* "°C – "
FmtDash ==
    <<"deg", "C", " ", "ndash", " ">>

\* "°C\nHumidity    : "
FmtHumidity ==
    <<"deg", "C", "\n", "H", "u", "m", "i", "d", "i", "t", "y", " ", " ", " ",
      " ", ":", " ">>

\* "%\nWind Speed  : "
FmtWind ==
    <<"%", "\n", "W", "i", "n", "d", " ", "S", "p", "e", "e", "d", " ", " ",
      ":", " ">>

\* " m/s\n"
FmtTail ==
    <<" ", "m", "/", "s", "\n">>

\* the fields format_weather_for_llm shows, with the default of each
FormatDefaults ==
    [city |-> UnknownCity, country |-> UnknownCountry,
     temperature |-> NotAvailable, feels_like |-> NotAvailable,
     description |-> NotAvailable, humidity |-> NotAvailable,
     wind_speed |-> NotAvailable, temp_min |-> NotAvailable,
     temp_max |-> NotAvailable]

\* the fixed layout of format_weather_for_llm around the texts shown
FormatLayout(shown) ==
    FmtHead \o shown.city \o <<",", " ">> \o shown.country
        \o FmtCondition \o shown.description
        \o FmtTemperature \o shown.temperature \o FmtFeels \o shown.feels_like
        \o FmtRange \o shown.temp_min \o FmtDash \o shown.temp_max
        \o FmtHumidity \o shown.humidity
        \o FmtWind \o shown.wind_speed \o FmtTail

\* WeatherParser.format_weather_for_llm
FormatWeatherForLlm(weather_data) ==
    FormatLayout([k \in DOMAIN FormatDefaults |->
                    GetShown(weather_data, k, FormatDefaults[k])])

\* "City: "
SumCity ==
    <<"C", "i", "t", "y", ":", " ">>

\* ", Country: "
SumCountry ==
    <<",", " ", "C", "o", "u", "n", "t", "r", "y", ":", " ">>

\* "\nTemperature: "
SumTemperature ==
    <<"\n", "T", "e", "m", "p", "e", "r", "a", "t", "u", "r", "e", ":", " ">>

\* "°C (Feels like: "
SumFeels ==
    <<"deg", "C", " ", "(", "F", "e", "e", "l", "s", " ", "l", "i", "k", "e",
      ":", " ">>

\* "°C)\nCondition: "
SumCondition ==
    <<"deg", "C", ")", "\n", "C", "o", "n", "d", "i", "t", "i", "o", "n", ":",
      " ">>

\* "\nHumidity: "
SumHumidity ==
    <<"\n", "H", "u", "m", "i", "d", "i", "t", "y", ":", " ">>

\* "%\nWind Speed: "
SumWind ==
    <<"%", "\n", "W", "i", "n", "d", " ", "S", "p", "e", "e", "d", ":", " ">>

\* the fields the weather_summary of generate_insights shows, with the
\* default of each
SummaryDefaults ==
    [city |-> Unknown, country |-> Unknown,
     temperature |-> NotAvailable, feels_like |-> NotAvailable,
     description |-> NotAvailable, humidity |-> NotAvailable,
     wind_speed |-> NotAvailable]

\* the fixed layout of weather_summary around the texts shown
SummaryLayout(shown) ==
    SumCity \o shown.city \o SumCountry \o shown.country
        \o SumTemperature \o shown.temperature \o SumFeels \o shown.feels_like
        \o SumCondition \o shown.description
        \o SumHumidity \o shown.humidity
        \o SumWind \o shown.wind_speed \o FmtTail

\* weather_summary, the part of the prompt of generate_insights that renders
\* the record
WeatherSummary(weather_data) ==
    SummaryLayout([k \in DOMAIN SummaryDefaults |->
                    GetShown(weather_data, k, SummaryDefaults[k])])

(***************************************************************************)
(* WeatherAssistant.get_weather_insights, in its three stages.  A result   *)
(* is a record whose fields are the keys of the dict the code returns, so  *)
(* "error" \in DOMAIN result is the code's  "error" in result.  An         *)
(* exception that leaves the method is the record [raised |-> message].    *)
(***************************************************************************)
NoResult == [none |-> TRUE]

ErrorResult(city, message) == [city |-> city, error |-> message]

Propagated(message) == [raised |-> message]

HasError(result) == "error" \in DOMAIN result

HasRaised(result) == "raised" \in DOMAIN result

IsWeatherResult(result) == "insights" \in DOMAIN result

\* a fetch guarded by  except RuntimeError  alone
CaughtOnFetchRuntimeOnly == {"RuntimeError"}

\* except (ValueError, RuntimeError) around the fetch
CaughtOnFetch == {"ValueError", "RuntimeError"}

\* except RuntimeError around the insight generation
CaughtOnGenerate == {"RuntimeError"}

\* a fetch stage that calls the provider again after a failure
FetchStageRetry(city, net) ==
    LET r == GetWeather(city, net)
    IN  IF r.ok THEN [next |-> "parse", raw |-> r.val, result |-> NoResult]
        ELSE [next |-> "fetch", raw |-> Null, result |-> NoResult]

\* the outcome of the fetch stage: the raw payload, or the result returned
FetchStage(city, net) ==
    LET r == GetWeather(city, net)
    IN  IF r.ok THEN [next |-> "parse", raw |-> r.val, result |-> NoResult]
        ELSE IF r.exc \in CaughtOnFetch
        THEN [next |-> "deliver", raw |-> Null, result |-> ErrorResult(city, r.msg)]
        ELSE [next |-> "deliver", raw |-> Null, result |-> Propagated(r.msg)]

\* a parse stage that goes on to the insight generation whatever the parse did
ParseStageGenerateAnyway(city, raw) ==
    LET r == ParseWeatherData(raw)
        empty == SubValue("object", NoKeys(SysKeys))
        nothing == ParsedRecord(RawData("object", FALSE, Absent, empty, empty,
                                        ListValue("absent", <<>>, FALSE), empty),
                                SubValue("object", NoKeys(SysKeys)),
                                SubValue("object", NoKeys(MainKeys)),
                                SubValue("object", NoKeys(WeatherKeys)),
                                SubValue("object", NoKeys(WindKeys)))
    IN  [next |-> "generate", parsed |-> IF r.ok THEN r.val ELSE nothing,
         result |-> NoResult]

\* the outcome of the parse stage (except Exception: nothing escapes)
ParseStage(city, raw) ==
    LET r == ParseWeatherData(raw)
    IN  IF r.ok THEN [next |-> "generate", parsed |-> r.val, result |-> NoResult]
        ELSE [next |-> "deliver", parsed |-> Null,
              result |-> ErrorResult(city, MsgParseHead \o r.msg)]

\* insights_text after the try block around generate_insights
InsightsText(r) == IF r.ok THEN r.val ELSE Placeholder

\* the dict returned on success
WeatherResult(parsed, pair) ==
    [city |-> parsed.city,
     country |-> parsed.country,
     temperature |-> parsed.temperature,
     feels_like |-> parsed.feels_like,
     description |-> parsed.description,
     humidity |-> parsed.humidity,
     wind_speed |-> parsed.wind_speed,
     recommendation |-> pair.recommendation,
     insights |-> pair.insights]

\* the outcome of the generation stage
GenerateStage(parsed, llm) ==
    LET r == GenerateInsights(parsed, llm)
    IN  IF r.ok \/ r.exc \in CaughtOnGenerate
        THEN WeatherResult(parsed, SplitInsights(InsightsText(r)))
        ELSE Propagated(r.msg)

(***************************************************************************)
(* The two delivery surfaces: what POST /chat answers and what the CLI     *)
(* loop prints for one turn.  An optional text is Txt(s) or Null (None).   *)
(***************************************************************************)
Txt(s) == [t |-> "text", v |-> s]

UpperCase ==
    <<"A", "B", "C", "D", "E", "F", "G", "H", "I", "J", "K", "L", "M",
      "N", "O", "P", "Q", "R", "S", "T", "U", "V", "W", "X", "Y", "Z">>

LowerCase ==
    <<"a", "b", "c", "d", "e", "f", "g", "h", "i", "j", "k", "l", "m",
      "n", "o", "p", "q", "r", "s", "t", "u", "v", "w", "x", "y", "z">>

\* str.lower()
Lower(s) ==
    [i \in 1..Len(s) |->
        IF \E j \in 1..Len(UpperCase) : UpperCase[j] = s[i]
        THEN LowerCase[CHOOSE j \in 1..Len(UpperCase) : UpperCase[j] = s[i]]
        ELSE s[i]]

\* ["quit", "exit", "q"]
QuitWords == { <<"q", "u", "i", "t">>, <<"e", "x", "i", "t">>, <<"q">> }

\* a fallback that takes fewer than three tokens for a city
ShortUtteranceOffByOne(message) == Len(Words(message)) < 3

\* len(message.split()) <= 3
ShortUtterance(message) == Len(Words(message)) <= 3

\* raise HTTPException(status_code, detail)
HttpError(status, detail) == [status |-> status, detail |-> detail]

\* a ChatResponse returned with status 200; the fields not given are None
ChatResponse(user_message, bot_type, fields) ==
    [status |-> 200,
     user_message |-> user_message,
     bot_type |-> bot_type,
     city |-> IF "city" \in DOMAIN fields THEN fields.city ELSE Null,
     country |-> IF "country" \in DOMAIN fields THEN fields.country ELSE Null,
     temperature |->
        IF "temperature" \in DOMAIN fields THEN fields.temperature ELSE Null,
     feels_like |->
        IF "feels_like" \in DOMAIN fields THEN fields.feels_like ELSE Null,
     description |->
        IF "description" \in DOMAIN fields THEN fields.description ELSE Null,
     humidity |-> IF "humidity" \in DOMAIN fields THEN fields.humidity ELSE Null,
     wind_speed |->
        IF "wind_speed" \in DOMAIN fields THEN fields.wind_speed ELSE Null,
     recommendation |->
        IF "recommendation" \in DOMAIN fields THEN fields.recommendation ELSE Null,
     insights |-> IF "insights" \in DOMAIN fields THEN fields.insights ELSE Null,
     error |-> IF "error" \in DOMAIN fields THEN fields.error ELSE Null]

\* the ChatResponse built from a successful result (the payloads a turn draws
\* carry values of the types the response model declares, so its validation
\* accepts them)
HttpWeather(message, result) ==
    ChatResponse(message, "weather",
        [city |-> result.city, country |-> result.country,
         temperature |-> result.temperature, feels_like |-> result.feels_like,
         description |-> result.description, humidity |-> result.humidity,
         wind_speed |-> result.wind_speed,
         recommendation |-> Txt(result.recommendation),
         insights |-> Txt(result.insights)])

HttpChat(message, reply) ==
    ChatResponse(message, "chat", [recommendation |-> Txt(reply)])

\* what health_check() returns
HealthCheck(assistant) ==
    [status |-> "ok", service |-> "Weather Assistant API",
     assistant_ready |-> assistant # "none"]

\* a chat() that answers a failure as a chat reply
HttpDeliverFailureAsChat(message, response_text, path, fetched, result) ==
    IF HasRaised(result) THEN HttpChat(message, result.raised)
    ELSE HttpChat(message, response_text)

\* what chat() returns, or raises, once the classification is routed;
\* fetched says whether get_weather_insights was called
HttpDeliver(message, response_text, path, fetched, result) ==
    IF HasRaised(result) THEN HttpError(500, MsgProcessingHead \o result.raised)
    ELSE IF path = "weather"
    THEN (IF HasError(result)
          THEN ChatResponse(message, "weather", [error |-> Txt(result.error)])
          ELSE HttpWeather(message, result))
    ELSE IF path = "chat"
    THEN HttpChat(message, Strip(Remove(response_text, ChatPrefix)))
    ELSE IF fetched /\ ~HasError(result) THEN HttpWeather(message, result)
    ELSE HttpChat(message, response_text)

\* the lines the CLI prints in one turn: kind names the block printed,
\* announced the city of the line "Fetching weather for '<city>'..."
CliOutput(kind, announced, body) ==
    [kind |-> kind, announced |-> announced, body |-> body]

CliDeliver(message, response_text, path, fetched, city, result) ==
    LET announced == IF path = "weather" THEN Txt(city) ELSE Null
    IN  IF HasRaised(result) THEN CliOutput("unexpected", announced, result.raised)
        ELSE IF path = "weather"
        THEN (IF HasError(result)
              THEN CliOutput("error", announced, result.error)
              ELSE CliOutput("weather", announced, result))
        ELSE IF path = "chat"
        THEN CliOutput("chat", announced, Strip(Remove(response_text, ChatPrefix)))
        ELSE IF fetched
        THEN (IF ~HasError(result)
              THEN CliOutput("weather", announced, result)
              ELSE CliOutput("error", announced, result.error))
        ELSE CliOutput("chat", announced, response_text)

Deliver(surface, message, response_text, path, fetched, city, result) ==
    IF surface = "http"
    THEN HttpDeliver(message, response_text, path, fetched, result)
    ELSE CliDeliver(message, response_text, path, fetched, city, result)

(***************************************************************************)
(* The routing of the classifier's answer, the same on both surfaces.      *)
(***************************************************************************)
\* the city extracted from an answer that starts with "WEATHER:"
ExtractCity(response_text) == Strip(Remove(response_text, WeatherPrefix))

\* path: "weather" | "chat" | "fallback"; fetch: whether get_weather_insights
\* is called; city: the city it is called with
Route(message, response_text) ==
    IF StartsWith(response_text, WeatherPrefix)
    THEN [path |-> "weather", fetch |-> TRUE, city |-> ExtractCity(response_text)]
    ELSE IF StartsWith(response_text, ChatPrefix)
    THEN [path |-> "chat", fetch |-> FALSE, city |-> <<>>]
    ELSE IF ShortUtterance(message)
    THEN [path |-> "fallback", fetch |-> TRUE, city |-> message]
    ELSE [path |-> "fallback", fetch |-> FALSE, city |-> <<>>]

\* a surface that hands every message on to the classification
AdmitNoEmptyCheck(surface, assistant, request) ==
    LET message == Strip(request)
    IN  IF surface = "http" /\ assistant = "none"
        THEN [next |-> "done", message |-> <<>>,
              response |-> HttpError(500, MsgNotAvailable)]
        ELSE IF surface = "cli" /\ Lower(message) \in QuitWords
        THEN [next |-> "exited", message |-> message,
              response |-> CliOutput("bye", Null, <<>>)]
        ELSE [next |-> "classify", message |-> message, response |-> NoResult]

\* a service that tests the message only, not its assistant
AdmitNoAssistantCheck(surface, assistant, request) ==
    LET message == Strip(request)
    IN  IF message = <<>>
        THEN [next |-> "done", message |-> message,
              response |-> IF surface = "http" THEN HttpError(400, MsgEmptyMessage)
                           ELSE CliOutput("reprompt", Null, <<>>)]
        ELSE IF surface = "cli" /\ Lower(message) \in QuitWords
        THEN [next |-> "exited", message |-> message,
              response |-> CliOutput("bye", Null, <<>>)]
        ELSE [next |-> "classify", message |-> message, response |-> NoResult]

\* what a surface does with a message before any call is made:
\*   POST /chat  500 when the assistant is None, else 400 when the stripped
\*               message is empty
\*   CLI         a re-prompt when the stripped line is empty, the end of the
\*               loop when it is a quit word
\* next is "classify" when the turn goes on
Admit(surface, assistant, request) ==
    LET message == Strip(request)
    IN  IF surface = "http"
        THEN (IF assistant = "none"
              THEN [next |-> "done", message |-> <<>>,
                    response |-> HttpError(500, MsgNotAvailable)]
              ELSE IF message = <<>>
              THEN [next |-> "done", message |-> message,
                    response |-> HttpError(400, MsgEmptyMessage)]
              ELSE [next |-> "classify", message |-> message,
                    response |-> NoResult])
        ELSE (IF message = <<>>
              THEN [next |-> "done", message |-> message,
                    response |-> CliOutput("reprompt", Null, <<>>)]
              ELSE IF Lower(message) \in QuitWords
              THEN [next |-> "exited", message |-> message,
                    response |-> CliOutput("bye", Null, <<>>)]
              ELSE [next |-> "classify", message |-> message,
                    response |-> NoResult])

(***************************************************************************)
(* Inputs of the model.                                                    *)
(***************************************************************************)
RECURSIVE Flatten(_)
Flatten(parts) ==
    IF parts = <<>> THEN <<>> ELSE parts[1] \o Flatten(Tail(parts))

PieceTexts(pieces, n) ==
    { Flatten(ps) : ps \in UNION { [1..k -> pieces] : k \in 0..n } }

\* texts the language model may generate for the insights: a letter, the
\* terminal marks, a blank, a newline and the two labels, in any order
TextPieces ==
    { <<"a">>, <<".">>, <<"?">>, <<" ">>, <<"\n">>,
      RecommendationLabel, InsightsLabel }

GeneratedTexts == PieceTexts(TextPieces, MaxPieces)

\* what a user may type: a number of equal words, bare or padded with blanks
UtteranceWords == { <<"k">>, <<"Q">> }

Utterances ==
    { pad \o Join([i \in 1..n |-> w], <<" ">>) \o pad :
        w \in UtteranceWords, n \in 0..MaxTokens, pad \in { <<>>, <<" ">> } }

\* what the language model may answer to the classification prompt
ClassifierPieces ==
    { WeatherPrefix, ChatPrefix, <<" ">>, <<"k">>,
      <<"w", "e", "a", "t", "h", "e", "r", ":">> }

ClassifierTexts == PieceTexts(ClassifierPieces, MaxClsPieces)

\* str(e) of an exception, or the body of an error response
Details == { <<>>, <<"x">> }

ClassifierOutcomes ==
    { LlmOutcome("raise", d, <<>>) : d \in Details }
        \cup { LlmOutcome("none", <<>>, <<>>) }
        \cup { LlmOutcome("text", <<>>, t) : t \in ClassifierTexts }

\* a payload with every key the parser reads
FullMain == SubValue("object", [k \in MainKeys |-> Num(1)])
FullSys == SubValue("object", [k \in SysKeys |-> Str(1)])
FullWind == SubValue("object", [k \in WindKeys |-> Num(1)])
FullItem == SubValue("object", [k \in WeatherKeys |-> Str(1)])
FullList == ListValue("array", <<FullItem>>, TRUE)
NoList == ListValue("absent", <<>>, FALSE)
NoSub(keys) == SubValue("absent", NoKeys(keys))

FullPayload ==
    RawData("object", TRUE, Str(1), FullSys, FullMain, FullList, FullWind)

\* the payloads a turn may receive with status 200: the full one, one
\* without the "weather" list, JSON null, the empty object, and one whose
\* "main" is null
TurnPayloads ==
    { FullPayload,
      RawData("object", TRUE, Str(1), FullSys, FullMain, NoList, FullWind),
      RawData("null", FALSE, Absent, NoSub(SysKeys), NoSub(MainKeys),
              NoList, NoSub(WindKeys)),
      RawData("object", FALSE, Absent, NoSub(SysKeys), NoSub(MainKeys),
              NoList, NoSub(WindKeys)),
      RawData("object", TRUE, Str(1), FullSys,
              SubValue("null", NoKeys(MainKeys)), FullList, FullWind) }

\* the status codes of a response: the four the client tells apart and one
\* of the others
StatusCodes == {200, 401, 404, 429, 500}

NetOutcomes ==
    { NetOutcome(k, 0, d, "ok", Null) :
        k \in {"timeout", "connection", "request"}, d \in Details }
        \cup { NetOutcome("response", s, d, "ok", Null) :
                s \in StatusCodes \ {200}, d \in Details }
        \cup { NetOutcome("response", 200, <<>>, e, Null) : e \in {"json", "compat"} }
        \cup { NetOutcome("response", 200, <<>>, "ok", p) : p \in TurnPayloads }

\* texts the model may return for the insights in a turn: nothing, a blank,
\* one to three sentences, and a sentence with an echoed label inside
InsightTexts ==
    { <<>>, <<" ">>,
      <<"a", ".">>,
      <<"a", ".", " ", "a", ".">>,
      <<"a", ".", "\n", "a", ".", " ", "a", ".">>,
      <<"a", " ">> \o InsightsLabel \o <<" ", "a", ".">> }

LlmOutcomes ==
    { LlmOutcome("raise", d, <<>>) : d \in Details }
        \cup { LlmOutcome("none", <<>>, <<>>) }
        \cup { LlmOutcome("text", <<>>, t) : t \in InsightTexts }

(***************************************************************************)
(* Payloads for the parser on its own: the full payload with at most       *)
(* MaxDefects of its places changed.  A place is the payload itself        *)
(* ("top", which may be null), its keys outside the five the parser reads  *)
(* ("extra"), one of the five keys, or a key of a sub-object; a change     *)
(* removes the key, stores null, stores a falsy scalar ("zero": 0 or ""),  *)
(* stores a string in place of an object or a list ("string", or "blank"   *)
(* for the empty string), empties an object or a list ("empty"), or makes  *)
(* null the first element of the list ("nullitem").                        *)
(***************************************************************************)
GroupSites == {"sys", "main", "wind"}

LeafSites ==
    {"name", "country", "temp", "feels_like", "humidity", "temp_min", "temp_max",
     "pressure", "description", "weather_main", "speed", "deg"}

Sites == {"top", "extra", "weather"} \cup GroupSites \cup LeafSites

Variants(site) ==
    CASE site = "top" -> {"null"}
      [] site = "extra" -> {"absent"}
      [] site = "weather" -> {"absent", "null", "string", "blank", "empty", "nullitem"}
      [] site \in GroupSites -> {"absent", "null", "string", "empty"}
      [] OTHER -> {"absent", "null", "zero"}

AllVariants == UNION { Variants(s) : s \in Sites }

\* the sets of at most n places
RECURSIVE SiteSets(_)
SiteSets(n) ==
    IF n = 0 THEN { {} }
    ELSE LET smaller == SiteSets(n - 1)
         IN  smaller \cup { S \cup {x} : S \in smaller, x \in Sites }

\* the changes: a variant for each place of such a set
Defects ==
    UNION { { d \in [S -> AllVariants] : \A s \in S : d[s] \in Variants(s) } :
            S \in SiteSets(MaxDefects) }

VariantAt(d, site) == IF site \in DOMAIN d THEN d[site] ELSE "full"

DefectLeaf(d, site, full) ==
    CASE VariantAt(d, site) = "absent" -> Absent
      [] VariantAt(d, site) = "null" -> Null
      [] VariantAt(d, site) = "zero" -> [t |-> full.t, v |-> 0]
      [] OTHER -> full

\* the place of key k of the sub-object stored under group
SiteOf(group, k) == IF group = "weather" /\ k = "main" THEN "weather_main" ELSE k

DefectFields(d, group, full) ==
    [k \in DOMAIN full.f |-> DefectLeaf(d, SiteOf(group, k), full.f[k])]

DefectSub(d, group, full) ==
    CASE VariantAt(d, group) = "absent" -> SubValue("absent", NoKeys(DOMAIN full.f))
      [] VariantAt(d, group) = "null" -> SubValue("null", NoKeys(DOMAIN full.f))
      [] VariantAt(d, group) = "string" -> SubValue("string", NoKeys(DOMAIN full.f))
      [] VariantAt(d, group) = "empty" -> SubValue("object", NoKeys(DOMAIN full.f))
      [] OTHER -> SubValue("object", DefectFields(d, group, full))

DefectList(d) ==
    CASE VariantAt(d, "weather") = "absent" -> NoList
      [] VariantAt(d, "weather") = "null" -> ListValue("null", <<>>, FALSE)
      [] VariantAt(d, "weather") = "string" -> ListValue("string", <<>>, TRUE)
      [] VariantAt(d, "weather") = "blank" -> ListValue("string", <<>>, FALSE)
      [] VariantAt(d, "weather") = "empty" -> ListValue("array", <<>>, FALSE)
      [] VariantAt(d, "weather") = "nullitem" ->
            ListValue("array", <<SubValue("null", NoKeys(WeatherKeys))>>, TRUE)
      [] OTHER ->
            ListValue("array",
                      <<SubValue("object", DefectFields(d, "weather", FullItem))>>,
                      TRUE)

DefectPayload(d) ==
    RawData(IF VariantAt(d, "top") = "null" THEN "null" ELSE "object",
            VariantAt(d, "extra") # "absent",
            DefectLeaf(d, "name", Str(1)),
            DefectSub(d, "sys", FullSys),
            DefectSub(d, "main", FullMain),
            DefectList(d),
            DefectSub(d, "wind", FullWind))

ParsePayloads == { DefectPayload(d) : d \in Defects }

(***************************************************************************)
(* State.                                                                  *)
(***************************************************************************)
VARIABLES
    \* --- the process ---
    surface,        \* "http" (src/backend/api.py) | "cli" (main() of src/main.py)
    assistant,      \* "ready" | "none": the module-level assistant of the service
    \* --- one turn ---
    pc,             \* "idle" | "classify" | "fetch" | "parse" | "generate"
                    \* | "deliver" | "done" | "exited"
    request,        \* the message as received
    message,        \* the stripped message
    response_text,  \* the stripped answer of the classification call
    path,           \* "none" | "weather" | "chat" | "fallback"
    city,           \* the city get_weather_insights is called with
    fetched,        \* whether get_weather_insights was called
    cls,            \* what the classification call did
    net,            \* what the provider call did
    llm,            \* what the insight-generation call did
    raw_data,       \* the payload fetched
    parsed,         \* the record parsed from it
    result,         \* what get_weather_insights returned, or what was raised
    response,       \* what the surface answered
    calls,          \* the external calls of the turn, in order
    \* --- the sentence split on its own ---
    text,           \* the text handed to the sentence split
    phase,          \* "text" | "split" | "refed" | "resplit"
    split,          \* the (recommendation, insights) pair of the last split
    firstSplit,     \* the pair of the first split, kept when the pair is fed back
    \* --- the parser on its own ---
    payload,        \* the payload handed to the parser
    parsePhase,     \* "off" | "raw" | "parsed" | "formatted" | "validated"
    parseOut,       \* what parse_weather_data returned or raised
    formatted,      \* what format_weather_for_llm returned for the record
    summary,        \* the weather_summary generate_insights builds from it
    valid,          \* what validate_weather_data returned for the record
    \* --- GET /health ---
    health          \* the answer to a GET /health served since the last message

processVars == <<surface, assistant>>

turnVars ==
    <<pc, request, message, response_text, path, city, fetched, cls, net, llm,
      raw_data, parsed, result, response, calls>>

splitVars == <<text, phase, split, firstSplit>>

parseVars == <<payload, parsePhase, parseOut, formatted, summary, valid>>

probeVars == <<health>>

vars == <<processVars, turnVars, splitVars, parseVars, probeVars>>

NoSplit == [recommendation |-> <<>>, insights |-> <<>>]

NoOutcome == [kind |-> "none"]

\* the turn variables before a message is received
TurnIdle ==
    /\ pc = "idle"
    /\ request = <<>>
    /\ message = <<>>
    /\ response_text = <<>>
    /\ path = "none"
    /\ city = <<>>
    /\ fetched = FALSE
    /\ cls = NoOutcome
    /\ net = NoOutcome
    /\ llm = NoOutcome
    /\ raw_data = Null
    /\ parsed = Null
    /\ result = NoResult
    /\ response = NoResult
    /\ calls = <<>>

SplitIdle ==
    /\ text = <<>>
    /\ phase = "off"
    /\ split = NoSplit
    /\ firstSplit = NoSplit

ParseIdle ==
    /\ payload = Null
    /\ parsePhase = "off"
    /\ parseOut = NoResult
    /\ formatted = <<>>
    /\ summary = <<>>
    /\ valid = FALSE

(***************************************************************************)
(* The turns of a surface.  The service either initialised its assistant   *)
(* at import or holds None for the rest of the process; the CLI loop runs  *)
(* only with an assistant.                                                 *)
(***************************************************************************)
Init ==
    /\ \E p \in { <<"http", "ready">>, <<"http", "none">>, <<"cli", "ready">> } :
        /\ surface = p[1]
        /\ assistant = p[2]
    /\ TurnIdle
    /\ SplitIdle
    /\ ParseIdle
    /\ health = NoResult

\* a message arrives: the checks made before any call
Receive ==
    /\ pc = "idle"
    /\ \E r \in Utterances :
        LET a == Admit(surface, assistant, r)
        IN  /\ request' = r
            /\ message' = a.message
            /\ response' = a.response
            /\ pc' = a.next
    /\ health' = NoResult
    /\ UNCHANGED <<response_text, path, city, fetched, cls, net, llm, raw_data,
                   parsed, result, calls>>
    /\ UNCHANGED <<processVars, splitVars, parseVars>>

\* the one generate_content call that classifies, and the routing of its answer
Classify ==
    /\ pc = "classify"
    /\ calls' = Append(calls, "classify")
    /\ \E c \in ClassifierOutcomes :
        /\ cls' = c
        /\ IF c.kind = "raise"
           THEN /\ result' = Propagated(c.detail)
                /\ pc' = "deliver"
                /\ UNCHANGED <<response_text, path, city>>
           ELSE LET rt == Strip(IF c.kind = "none" THEN <<>> ELSE c.text)
                    r == Route(message, rt)
                IN  /\ response_text' = rt
                    /\ path' = r.path
                    /\ city' = r.city
                    /\ pc' = IF r.fetch THEN "fetch" ELSE "deliver"
                    /\ UNCHANGED result
    /\ UNCHANGED <<request, message, fetched, net, llm, raw_data, parsed, response>>
    /\ UNCHANGED <<processVars, splitVars, parseVars, probeVars>>

\* get_weather_insights: the provider call
Fetch ==
    /\ pc = "fetch"
    /\ calls' = Append(calls, "fetch")
    /\ fetched' = TRUE
    /\ \E n \in NetOutcomes :
        LET s == FetchStage(city, n)
        IN  /\ net' = n
            /\ raw_data' = s.raw
            /\ result' = s.result
            /\ pc' = s.next
    /\ UNCHANGED <<request, message, response_text, path, city, cls, llm, parsed,
                   response>>
    /\ UNCHANGED <<processVars, splitVars, parseVars, probeVars>>

\* get_weather_insights: the parse of the payload
Parse ==
    /\ pc = "parse"
    /\ LET s == ParseStage(city, raw_data)
       IN  /\ parsed' = s.parsed
           /\ result' = s.result
           /\ pc' = s.next
    /\ UNCHANGED <<request, message, response_text, path, city, fetched, cls, net,
                   llm, raw_data, response, calls>>
    /\ UNCHANGED <<processVars, splitVars, parseVars, probeVars>>

\* get_weather_insights: the insight generation and the sentence split
Generate ==
    /\ pc = "generate"
    /\ calls' = Append(calls, "generate")
    /\ \E g \in LlmOutcomes :
        /\ llm' = g
        /\ result' = GenerateStage(parsed, g)
    /\ pc' = "deliver"
    /\ UNCHANGED <<request, message, response_text, path, city, fetched, cls, net,
                   raw_data, parsed, response>>
    /\ UNCHANGED <<processVars, splitVars, parseVars, probeVars>>

\* the surface answers
DeliverTurn ==
    /\ pc = "deliver"
    /\ response' = Deliver(surface, message, response_text, path, fetched, city, result)
    /\ pc' = "done"
    /\ UNCHANGED <<request, message, response_text, path, city, fetched, cls, net,
                   llm, raw_data, parsed, result, calls>>
    /\ UNCHANGED <<processVars, splitVars, parseVars, probeVars>>

\* the next request, or the next round of the loop: nothing of a turn is kept
NextTurn ==
    /\ pc = "done"
    /\ pc' = "idle"
    /\ request' = <<>>
    /\ message' = <<>>
    /\ response_text' = <<>>
    /\ path' = "none"
    /\ city' = <<>>
    /\ fetched' = FALSE
    /\ cls' = NoOutcome
    /\ net' = NoOutcome
    /\ llm' = NoOutcome
    /\ raw_data' = Null
    /\ parsed' = Null
    /\ result' = NoResult
    /\ response' = NoResult
    /\ calls' = <<>>
    /\ UNCHANGED <<processVars, splitVars, parseVars, probeVars>>

\* GET /health, served between two messages: the handlers run one at a time
Health ==
    /\ surface = "http"
    /\ pc \in {"idle", "done"}
    /\ health' = HealthCheck(assistant)
    /\ UNCHANGED <<processVars, turnVars, splitVars, parseVars>>

Next ==
    \/ Receive
    \/ Classify
    \/ Fetch
    \/ Parse
    \/ Generate
    \/ DeliverTurn
    \/ NextTurn
    \/ Health

Spec == Init /\ [][Next]_vars

(***************************************************************************)
(* Specification of the sentence split as a pure function: a text is drawn *)
(* from the generated texts, split, fed back as                            *)
(* recommendation + " " + insights and split again.                        *)
(***************************************************************************)
InitSplit ==
    /\ surface = "cli"
    /\ assistant = "ready"
    /\ TurnIdle
    /\ ParseIdle
    /\ health = NoResult
    /\ text \in GeneratedTexts
    /\ phase = "text"
    /\ split = NoSplit
    /\ firstSplit = NoSplit

DoSplit ==
    /\ phase = "text"
    /\ split' = SplitInsights(text)
    /\ phase' = "split"
    /\ UNCHANGED <<text, firstSplit>>
    /\ UNCHANGED <<processVars, turnVars, parseVars, probeVars>>

Refeed ==
    /\ phase = "split"
    /\ text' = split.recommendation \o <<" ">> \o split.insights
    /\ firstSplit' = split
    /\ phase' = "refed"
    /\ UNCHANGED split
    /\ UNCHANGED <<processVars, turnVars, parseVars, probeVars>>

DoResplit ==
    /\ phase = "refed"
    /\ split' = SplitInsights(text)
    /\ phase' = "resplit"
    /\ UNCHANGED <<text, firstSplit>>
    /\ UNCHANGED <<processVars, turnVars, parseVars, probeVars>>

NextSplit == DoSplit \/ Refeed \/ DoResplit

SpecSplit == InitSplit /\ [][NextSplit]_vars

(***************************************************************************)
(* Specification of the parser as pure functions: a payload is drawn and   *)
(* parsed, and the record is rendered for a prompt and validated.          *)
(***************************************************************************)
InitParse ==
    /\ surface = "cli"
    /\ assistant = "ready"
    /\ TurnIdle
    /\ SplitIdle
    /\ health = NoResult
    /\ payload \in ParsePayloads
    /\ parsePhase = "raw"
    /\ parseOut = NoResult
    /\ formatted = <<>>
    /\ summary = <<>>
    /\ valid = FALSE

DoParse ==
    /\ parsePhase = "raw"
    /\ parseOut' = ParseWeatherData(payload)
    /\ parsePhase' = "parsed"
    /\ UNCHANGED <<payload, formatted, summary, valid>>
    /\ UNCHANGED <<processVars, turnVars, splitVars, probeVars>>

\* the record is rendered; dict.get and the f-strings leave it as it is
DoFormat ==
    /\ parsePhase = "parsed"
    /\ parseOut.ok
    /\ formatted' = FormatWeatherForLlm(parseOut.val)
    /\ summary' = WeatherSummary(parseOut.val)
    /\ parsePhase' = "formatted"
    /\ UNCHANGED <<payload, parseOut, valid>>
    /\ UNCHANGED <<processVars, turnVars, splitVars, probeVars>>

DoValidate ==
    /\ parsePhase = "formatted"
    /\ valid' = ValidateWeatherData(parseOut.val)
    /\ parsePhase' = "validated"
    /\ UNCHANGED <<payload, parseOut, formatted, summary>>
    /\ UNCHANGED <<processVars, turnVars, splitVars, probeVars>>

NextParse == DoParse \/ DoFormat \/ DoValidate

SpecParse == InitParse /\ [][NextParse]_vars

(***************************************************************************)
(* C1: after whitespace collapse and label stripping, the split follows    *)
(* the sentence count n: for n >= 3 the recommendation is the first        *)
(* sentence and the insights are the remaining sentences joined by single  *)
(* spaces; for n = 2 they are sentence 1 and sentence 2; for n <= 1 the    *)
(* recommendation is the whole cleaned text and the insights are empty.    *)
(***************************************************************************)
C1_SplitFollowsSentenceCount ==
    phase = "split" =>
        LET full == CleanText(text)
            s == Sentences(full)
            n == Len(s)
        IN  /\ n >= 3 => /\ split.recommendation = s[1]
                         /\ split.insights = Join(SubSeq(s, 2, n), <<" ">>)
            /\ n = 2 => /\ split.recommendation = s[1]
                        /\ split.insights = s[2]
            /\ n <= 1 => /\ split.recommendation = full
                         /\ split.insights = <<>>

\* a text of exactly two sentences has been split
C1_Witness ==
    /\ phase = "split"
    /\ Len(Sentences(CleanText(text))) = 2
    /\ split.insights # <<>>

(***************************************************************************)
(* C2: the split is idempotent: splitting recommendation + " " + insights  *)
(* again yields the same recommendation and the same insights.             *)
(***************************************************************************)
C2_SplitIdempotent ==
    phase = "resplit" => split = firstSplit

(***************************************************************************)
(* Predicates on the inputs of a turn, used to state the claims.           *)
(***************************************************************************)
\* the provider call failed: no response, a status other than 200, or a
\* body that is not JSON
ProviderFailed(n) ==
    /\ n # NoOutcome
    /\ \/ n.kind \in {"timeout", "connection", "request"}
       \/ n.status # 200
       \/ n.decode # "ok"

\* the model call for the insights failed or returned no text
InsightFailed(g) ==
    /\ g # NoOutcome
    /\ \/ g.kind \in {"raise", "none"}
       \/ Strip(g.text) = <<>>

\* the classification call returned
Classified(c) == c # NoOutcome /\ c.kind \in {"none", "text"}

\* how often a call was made in the turn
CountCalls(name) == Cardinality({ i \in 1..Len(calls) : calls[i] = name })

(***************************************************************************)
(* C3: when the fetch and the parse succeed and the insight generation     *)
(* fails or returns empty text, the result has no error key, keeps the     *)
(* parsed weather fields, its insights are the placeholder text and its    *)
(* recommendation is empty or the placeholder.                             *)
(***************************************************************************)
C3_PlaceholderInInsights ==
    (pc \in {"deliver", "done"} /\ InsightFailed(llm)) =>
        /\ ~HasError(result)
        /\ ~HasRaised(result)
        /\ result.city = parsed.city
        /\ result.country = parsed.country
        /\ result.temperature = parsed.temperature
        /\ result.feels_like = parsed.feels_like
        /\ result.description = parsed.description
        /\ result.humidity = parsed.humidity
        /\ result.wind_speed = parsed.wind_speed
        /\ result.insights = Placeholder
        /\ result.recommendation \in { <<>>, Placeholder }

(***************************************************************************)
(* C4: for every city and every kind of provider failure,                  *)
(* get_weather_insights raises nothing and returns an error outcome whose  *)
(* city is the requested city and whose error is a non-empty message; for  *)
(* a 404 the message contains "not found".                                 *)
(***************************************************************************)
C4_ProviderFailureIsErrorOutcome ==
    (fetched /\ ProviderFailed(net)) =>
        /\ ~HasRaised(result)
        /\ HasError(result)
        /\ result.city = city
        /\ result.error # <<>>
        /\ (net.kind = "response" /\ net.status = 404) =>
                Contains(result.error, NotFoundWords)

\* a 404 for a named city has been turned into an error outcome
C4_Witness ==
    /\ pc = "deliver"
    /\ net # NoOutcome
    /\ net.kind = "response"
    /\ net.status = 404
    /\ city # <<>>
    /\ HasError(result)

(***************************************************************************)
(* C5: every user-visible error of the weather path includes the city      *)
(* that was looked up: for every provider failure on a weather-classified  *)
(* turn, what POST /chat returns, and what the CLI prints, carries it.     *)
(* The city counts as carried when it is the city field, or occurs in the  *)
(* error message, in the echoed user message or in a printed line.         *)
(***************************************************************************)
CarriesCity(resp) ==
    IF surface = "http"
    THEN /\ resp.status = 200
         /\ \/ resp.city = Txt(city)
            \/ resp.error # Null /\ Contains(resp.error.v, city)
            \/ Contains(resp.user_message, city)
    ELSE \/ resp.announced = Txt(city)
         \/ resp.kind = "error" /\ Contains(resp.body, city)

C5_WeatherErrorNamesCity ==
    (pc = "done" /\ path = "weather" /\ ProviderFailed(net)) =>
        CarriesCity(response)

(***************************************************************************)
(* C6: in a turn, on every path, the classification call is made exactly   *)
(* once, the provider is fetched at most once and the insights are         *)
(* generated at most once; no failed call is made again.  (A message that  *)
(* is rejected before the classification takes none of the paths.)         *)
(***************************************************************************)
C6_CallsAtMostOnce ==
    /\ CountCalls("classify") <= 1
    /\ CountCalls("fetch") <= 1
    /\ CountCalls("generate") <= 1
    /\ pc \in {"fetch", "parse", "generate", "deliver"} => CountCalls("classify") = 1
    /\ (pc = "done" /\ cls # NoOutcome) => CountCalls("classify") = 1
    /\ (pc = "done" /\ assistant = "ready" /\ Strip(request) # <<>>) =>
            CountCalls("classify") = 1

\* a turn ended after a failed fetch, with one classification and one fetch
C6_Witness ==
    /\ pc = "done"
    /\ ProviderFailed(net)
    /\ calls = <<"classify", "fetch">>

(***************************************************************************)
(* C7 as stated: a message that is empty or only whitespace is rejected    *)
(* before any call, POST /chat answering 400 and the CLI re-prompting, in  *)
(* every state of the service.                                             *)
(***************************************************************************)
C7_BlankRejectedInEveryState ==
    (pc # "idle" /\ Strip(request) = <<>>) =>
        /\ pc = "done"
        /\ calls = <<>>
        /\ surface = "http" => response = HttpError(400, MsgEmptyMessage)
        /\ surface = "cli" => response.kind = "reprompt"

(***************************************************************************)
(* C7 as amended: a message that is empty or only whitespace is rejected   *)
(* before any call; the CLI re-prompts; POST /chat answers 400 when the    *)
(* assistant is initialised, and 500 (service not available) when it is    *)
(* not.                                                                    *)
(***************************************************************************)
C7_BlankRejectedBeforeAnyCall ==
    (pc # "idle" /\ Strip(request) = <<>>) =>
        /\ pc = "done"
        /\ calls = <<>>
        /\ (surface = "http" /\ assistant = "ready") =>
                response = HttpError(400, MsgEmptyMessage)
        /\ (surface = "http" /\ assistant = "none") =>
                response = HttpError(500, MsgNotAvailable)
        /\ surface = "cli" => response.kind = "reprompt"

\* the service, with its assistant, has answered 400 to a blank message
C7_Witness ==
    /\ pc = "done"
    /\ surface = "http"
    /\ assistant = "ready"
    /\ request = <<" ", " ">>
    /\ response = HttpError(400, MsgEmptyMessage)

(***************************************************************************)
(* C8: for every classifier output that starts with "WEATHER:", the city   *)
(* looked up is the rest of the output after that leading prefix, trimmed, *)
(* and nothing else of it is removed.                                      *)
(***************************************************************************)
C8_CityIsTrimmedRemainder ==
    (Classified(cls) /\ StartsWith(response_text, WeatherPrefix)) =>
        city = Strip(SubSeq(response_text, Len(WeatherPrefix) + 1,
                            Len(response_text)))

(***************************************************************************)
(* C9: when the classifier output starts with neither "WEATHER:" nor       *)
(* "CHAT:", an utterance of at most 3 whitespace-separated tokens is       *)
(* fetched as the city, and for a longer one no fetch is made and the      *)
(* model output is returned as the chat reply.                             *)
(***************************************************************************)
C9_FallbackPolicy ==
    (/\ pc = "done"
     /\ Classified(cls)
     /\ ~StartsWith(response_text, WeatherPrefix)
     /\ ~StartsWith(response_text, ChatPrefix)) =>
        IF Len(Words(message)) <= 3
        THEN /\ CountCalls("fetch") = 1
             /\ net # NoOutcome
             /\ city = message
        ELSE /\ CountCalls("fetch") = 0
             /\ net = NoOutcome
             /\ surface = "http" =>
                    /\ response.status = 200
                    /\ response.bot_type = "chat"
                    /\ response.recommendation = Txt(response_text)
             /\ surface = "cli" =>
                    /\ response.kind = "chat"
                    /\ response.body = response_text

\* a three-word utterance went to the provider after an answer without prefix
C9_Witness ==
    /\ pc = "done"
    /\ Classified(cls)
    /\ response_text = <<"k">>
    /\ Len(Words(message)) = 3
    /\ CountCalls("fetch") = 1
    /\ city = message

(***************************************************************************)
(* C10: parse_weather_data fails if and only if the payload is null or     *)
(* empty; for every other payload it returns a record in which each field  *)
(* whose path is missing is null; when the "weather" list is missing or    *)
(* empty, description and weather_main are null and nothing is raised.     *)
(***************************************************************************)
NullOrEmpty(raw) ==
    \/ raw.shape = "null"
    \/ /\ raw.shape = "object"
       /\ ~raw.extra
       /\ \A k \in {"name", "sys", "main", "weather", "wind"} : raw[k].t = "absent"

\* the path of each field of the record: the top-level key and the key below it
FieldPath ==
    [city |-> <<"name", "">>,
     country |-> <<"sys", "country">>,
     temperature |-> <<"main", "temp">>,
     feels_like |-> <<"main", "feels_like">>,
     temp_min |-> <<"main", "temp_min">>,
     temp_max |-> <<"main", "temp_max">>,
     pressure |-> <<"main", "pressure">>,
     humidity |-> <<"main", "humidity">>,
     description |-> <<"weather", "description">>,
     weather_main |-> <<"weather", "main">>,
     wind_speed |-> <<"wind", "speed">>,
     wind_deg |-> <<"wind", "deg">>]

WeatherListMissing(raw) ==
    \/ raw.weather.t = "absent"
    \/ raw.weather.t = "array" /\ raw.weather.items = <<>>

PathMissing(raw, p) ==
    IF p[1] = "name" THEN raw.name.t = "absent"
    ELSE IF p[1] = "weather"
    THEN \/ WeatherListMissing(raw)
         \/ /\ raw.weather.t = "array"
            /\ raw.weather.items[1].t = "object"
            /\ raw.weather.items[1].f[p[2]].t = "absent"
    ELSE \/ raw[p[1]].t = "absent"
         \/ raw[p[1]].t = "object" /\ raw[p[1]].f[p[2]].t = "absent"

C10_ParseFailsOnlyOnEmpty ==
    parsePhase = "parsed" =>
        /\ parseOut.ok <=> ~NullOrEmpty(payload)
        /\ (~NullOrEmpty(payload) /\ payload.shape = "object") =>
                /\ parseOut.ok
                /\ \A fld \in DOMAIN FieldPath :
                        PathMissing(payload, FieldPath[fld]) =>
                            parseOut.val[fld] = Null
                /\ WeatherListMissing(payload) =>
                        /\ parseOut.val.description = Null
                        /\ parseOut.val.weather_main = Null

(***************************************************************************)
(* C11: for every record produced by parse_weather_data, the text rendered *)
(* for the model prompt shows "N/A" in place of each field that is null in *)
(* the record, and the rendering leaves the record unchanged.  (For the    *)
(* city and the country the placeholder of the rendering, "Unknown ...",   *)
(* is accepted as well.)                                                   *)
(***************************************************************************)
\* what a rendering shows when each null field is replaced: by "N/A", or,
\* for the city and the country, by the placeholder named
ShownAsClaimed(record, defaults, forCity, forCountry) ==
    [k \in DOMAIN defaults |->
        IF record[k] # Null THEN PyStr(record[k])
        ELSE IF k = "city" THEN forCity
        ELSE IF k = "country" THEN forCountry
        ELSE NotAvailable]

C11_NullShownAsNotAvailable ==
    parsePhase \in {"formatted", "validated"} =>
        /\ parseOut = ParseWeatherData(payload)
        /\ \E forCity \in {NotAvailable, UnknownCity},
              forCountry \in {NotAvailable, UnknownCountry} :
                formatted = FormatLayout(
                    ShownAsClaimed(parseOut.val, FormatDefaults, forCity, forCountry))
        /\ \E forCity \in {NotAvailable, Unknown},
              forCountry \in {NotAvailable, Unknown} :
                summary = SummaryLayout(
                    ShownAsClaimed(parseOut.val, SummaryDefaults, forCity, forCountry))

(***************************************************************************)
(* C14: validate_weather_data returns true if and only if city,            *)
(* temperature, description, humidity and wind_speed are all non-null in   *)
(* the record; 0 and the empty string count as present, and the other      *)
(* fields do not affect the result.                                        *)
(***************************************************************************)
C14_ValidIffRequiredNonNull ==
    parsePhase = "validated" =>
        (valid <=> /\ parseOut.val.city # Null
                   /\ parseOut.val.temperature # Null
                   /\ parseOut.val.description # Null
                   /\ parseOut.val.humidity # Null
                   /\ parseOut.val.wind_speed # Null)

\* a record whose humidity is 0 and whose city is the empty string has been
\* found valid
C14_Witness ==
    /\ parsePhase = "validated"
    /\ valid
    /\ parseOut.val.humidity = Num(0)
    /\ parseOut.val.city = Str(0)

(***************************************************************************)
(* C12: when the classification call fails, no weather fetch and no        *)
(* insight generation happen in the turn, and the failure reaches the      *)
(* surface as a generic failure: POST /chat answers 500 with a message     *)
(* that describes it, and the CLI prints an error and goes on with the     *)
(* next turn.                                                              *)
(***************************************************************************)
C12_ClassificationFailureIsGeneric ==
    (cls # NoOutcome /\ cls.kind = "raise") =>
        /\ pc \in {"deliver", "done"}
        /\ calls = <<"classify">>
        /\ ~fetched
        /\ net = NoOutcome
        /\ llm = NoOutcome
        /\ (pc = "done" /\ surface = "http") =>
                response = HttpError(500, MsgProcessingHead \o cls.detail)
        /\ (pc = "done" /\ surface = "cli") =>
                /\ response = CliOutput("unexpected", Null, cls.detail)
                /\ ENABLED NextTurn

\* the CLI has printed the error of a failed classification
C12_Witness ==
    /\ pc = "done"
    /\ surface = "cli"
    /\ cls # NoOutcome
    /\ cls.kind = "raise"
    /\ cls.detail = <<"x">>
    /\ response.kind = "unexpected"

\* what holds of every state of a service whose assistant is None
C13_FailingState ==
    assistant = "none" =>
        /\ surface = "http"
        /\ pc \in {"idle", "done"}
        /\ calls = <<>>
        /\ cls = NoOutcome /\ net = NoOutcome /\ llm = NoOutcome
        /\ pc = "done" =>
                /\ response = HttpError(500, MsgNotAvailable)
                /\ ENABLED NextTurn
        /\ health # NoResult => health.assistant_ready = FALSE

(***************************************************************************)
(* C13: when the assistant failed to initialise, the service stays in an   *)
(* always-failing state: every POST /chat, whatever its message, is        *)
(* answered with a failure, without any call and without ending the        *)
(* process, GET /health reports assistant_ready = false, and the assistant *)
(* never becomes available.                                                *)
(***************************************************************************)
C13_AlwaysFailing ==
    /\ [](C13_FailingState)
    /\ [][assistant = "none" => assistant' = "none"]_vars

\* a message with a city was answered 500 and GET /health was served
C13_Witness ==
    /\ assistant = "none"
    /\ pc = "done"
    /\ Strip(request) # <<>>
    /\ response = HttpError(500, MsgNotAvailable)
    /\ health # NoResult
    /\ health.assistant_ready = FALSE

(***************************************************************************)
(* C15: within a turn the external calls are strictly ordered: the         *)
(* classification call completes before a provider fetch starts, the       *)
(* insight generation starts only after a provider fetch and the parse of  *)
(* its payload have both succeeded, and when the fetch or the parse fails  *)
(* no insight-generation call is made in the turn.                         *)
(***************************************************************************)
\* the payload fetched has been parsed, and the parse failed
ParseFailed ==
    /\ fetched
    /\ ~ProviderFailed(net)
    /\ pc # "parse"
    /\ ~ParseWeatherData(raw_data).ok

C15_CallsInOrder ==
    /\ calls \in { <<>>, <<"classify">>, <<"classify", "fetch">>,
                   <<"classify", "fetch", "generate">> }
    /\ (pc = "fetch" \/ fetched) => Classified(cls)
    /\ (pc = "generate" \/ llm # NoOutcome) =>
            /\ fetched
            /\ ~ProviderFailed(net)
            /\ ParseWeatherData(raw_data).ok
            /\ parsed = ParseWeatherData(raw_data).val
    /\ (fetched /\ (ProviderFailed(net) \/ ParseFailed)) =>
            /\ pc \in {"deliver", "done"}
            /\ CountCalls("generate") = 0
            /\ llm = NoOutcome

\* a turn ended after the three calls
C15_Witness ==
    /\ pc = "done"
    /\ calls = <<"classify", "fetch", "generate">>
    /\ IsWeatherResult(result)

(***************************************************************************)
(* C16: the CLI loop and POST /chat deliver the same outcome: for every    *)
(* utterance, classifier output, provider outcome and model outcome of a   *)
(* turn, both surfaces deliver the same kind of outcome (weather result,   *)
(* chat reply, or error with its message), also on the fallback path when  *)
(* the fetch for a short utterance fails.  (A turn that ends before the    *)
(* classification, such as a quit word of the CLI, delivers no outcome.)   *)
(***************************************************************************)
\* what a weather result shows on both surfaces
ShownFields(r) ==
    <<r.city, r.country, r.temperature, r.description, r.humidity, r.wind_speed>>

\* the outcome a response of POST /chat carries: its kind and its content
OutcomeOfHttp(resp) ==
    IF resp.status # 200
    THEN [kind |-> "error",
          content |-> SubSeq(resp.detail, Len(MsgProcessingHead) + 1, Len(resp.detail))]
    ELSE IF resp.error # Null THEN [kind |-> "error", content |-> resp.error.v]
    ELSE IF resp.bot_type = "weather"
    THEN [kind |-> "weather",
          content |-> <<ShownFields(resp), resp.recommendation.v, resp.insights.v>>]
    ELSE [kind |-> "chat", content |-> resp.recommendation.v]

\* the outcome the lines printed by the CLI carry
OutcomeOfCli(out) ==
    IF out.kind \in {"error", "unexpected"}
    THEN [kind |-> "error", content |-> out.body]
    ELSE IF out.kind = "weather"
    THEN [kind |-> "weather",
          content |-> <<ShownFields(out.body), out.body.recommendation,
                        out.body.insights>>]
    ELSE [kind |-> "chat", content |-> out.body]

C16_SurfacesDeliverSameOutcome ==
    (pc = "done" /\ cls # NoOutcome) =>
        LET http == IF surface = "http" THEN response
                    ELSE Deliver("http", message, response_text, path, fetched,
                                 city, result)
            cli == IF surface = "cli" THEN response
                   ELSE Deliver("cli", message, response_text, path, fetched,
                                city, result)
        IN  OutcomeOfHttp(http) = OutcomeOfCli(cli)

(***************************************************************************)
(* C17: the sentence split loses and invents no text: for every text with  *)
(* at least 2 sentences after cleaning, the recommendation, one space and  *)
(* the insights are exactly the sentences of the cleaned text in order;    *)
(* and in every case neither the recommendation nor the insights contain   *)
(* a run of two or more whitespace characters.                             *)
(***************************************************************************)
NoWhitespaceRun(s) ==
    \A i \in 1..(Len(s) - 1) : ~(IsSpace(s[i]) /\ IsSpace(s[i + 1]))

C17_SplitKeepsTextSingleSpaced ==
    phase = "split" =>
        LET s == Sentences(CleanText(text))
        IN  /\ Len(s) >= 2 =>
                    split.recommendation \o <<" ">> \o split.insights
                        = Join(s, <<" ">>)
            /\ NoWhitespaceRun(split.recommendation)
            /\ NoWhitespaceRun(split.insights)

=============================================================================
